---------------------------- MODULE Spec2Model ----------------------------
(***************************************************************************)
(* Test-execution orchestration of the E2E testing platform:               *)
(*   TestRunner   (src/unnamed/part_003)                                   *)
(*   ZipService   (src/unnamed/part_004, lines 1-258)                      *)
(*   HTTP routes  (src/unnamed/part_004, lines 259-1514; src/src/server.js)*)
(*                                                                         *)
(* Node runs every handler on one thread: a step of the model is the code  *)
(* that runs between two suspension points (await / I/O completion).       *)
(*                                                                         *)
(* The routes are those of src/unnamed/part_004.  src/src/server.js holds  *)
(* the same handlers without the second write of result.json; its status   *)
(* route and its validation are the same.  The rate limiter in front of    *)
(* /api/ is not modelled.                                                  *)
(*                                                                         *)
(* Eight specifications:                                                   *)
(*   Spec      one job through its whole pipeline, status requests, the    *)
(*             retention sweep (cleanupOldTests) and a restart of the      *)
(*             process, which keeps the disk and loses the registry;       *)
(*   SpecBurst a burst of MaxBurst submissions up to the start of their    *)
(*             subprocesses;                                               *)
(*   SpecList  GET /api/test/list over the disks a process can start with; *)
(*   SpecDownload one job of POST /api/test/run under several project      *)
(*             identifiers, and GET /api/download/:filename of its bundle; *)
(*   SpecSweep a job beside cleanupOldTests, over a disk that holds an     *)
(*             earlier job, with time passing while the job is in flight;  *)
(*   SpecArchive  ZipService.createZip over every content of a job         *)
(*             directory;                                                  *)
(*   SpecTestFile TestRunner.generateTestFile over bounded test codes;     *)
(*   SpecFetch DataFetcher.fetchData (src/public/js/data-fetcher.js).      *)
(* Spec takes jobs to be far shorter than the retention window: there a    *)
(* day passes only between jobs.  SpecSweep does not.                      *)
(***************************************************************************)
EXTENDS Naturals, Sequences, FiniteSets, TLC

(***************************************************************************)
(* Bounds of the model                                                     *)
(***************************************************************************)
MaxJobs == 1
MaxClock == 1
\* Jobs of a burst of submissions
MaxBurst == 4
\* Job directories on the disk a process starts with
MaxDirs == 103
\* Jobs whose bundles are downloaded
MaxNamed == 1

(***************************************************************************)
(* Values                                                                  *)
(***************************************************************************)
\* undefined; an absent path, URL or time is the empty text <<>>
Missing == "undefined"

Ids == 1 .. MaxJobs

\* The ids of the jobs of a burst
BurstIds == 1 .. MaxBurst

\* The ids of the jobs whose bundles are downloaded
NamedIds == 1 .. MaxNamed

\* MAX_CONCURRENT_TESTS of the documented environment; no line of the
\* server or of TestRunner reads it
MAX_CONCURRENT_TESTS == 3

\* no job id
NoId == 0

validBrowsers == {"chromium", "firefox", "webkit"}

BaseUrl == "http://host"

\* Date#toISOString of the clock value t
ToISOString(t) == <<"iso", t>>

\* new Date(iso).toISOString().replace(/[:.]/g, '-')
Stamp(iso) == <<"stamp", iso[2]>>

\* `${projectId}_${testId}_${timestamp}.zip`
ZipFileName(projectId, testId, timestamp) == <<projectId, testId, timestamp>>

\* path.join(zipsDir, zipFileName)
ZipPathOf(zipFileName) == <<"reports/zips", zipFileName>>

\* `/api/download/${zipFileName}`
DownloadUrlOf(zipFileName) == <<"/api/download", zipFileName>>

\* url.startsWith('http')
StartsWithHttp(url) == Len(url) > 0 /\ url[1] = BaseUrl

\* String#includes on a text kept as a sequence of words
Includes(text, word) == \E i \in DOMAIN text : text[i] = word

\* JavaScript truthiness of a request field
Truthy(v) == v # Missing

\* `x = dflt` in a destructuring pattern
Default(v, dflt) == IF v = Missing THEN dflt ELSE v

(***************************************************************************)
(* Texts and paths.  A text is the sequence of its characters where the    *)
(* code looks at characters (the pattern of the download route, path.join).*)
(***************************************************************************)
\* The characters of the projectId values the requests carry
Chars(text) ==
  CASE text = "proj"          -> <<"p", "r", "o", "j">>
    [] text = "recorded-test" -> <<"r", "e", "c", "o", "r", "d", "e", "d", "-",
                                   "t", "e", "s", "t">>
    [] text = "a b"           -> <<"a", " ", "b">>
    [] text = "../p"          -> <<".", ".", "/", "p">>

\* [a-zA-Z0-9_\-]
WordChars ==
  {"a", "b", "c", "d", "e", "f", "g", "h", "i", "j", "k", "l", "m", "n", "o", "p", "q",
   "r", "s", "t", "u", "v", "w", "x", "y", "z",
   "A", "B", "C", "D", "E", "F", "G", "H", "I", "J", "K", "L", "M", "N", "O", "P", "Q",
   "R", "S", "T", "U", "V", "W", "X", "Y", "Z",
   "0", "1", "2", "3", "4", "5", "6", "7", "8", "9", "_", "-"}

DigitChar(n) == <<"0", "1", "2", "3", "4", "5", "6", "7", "8", "9">>[n + 1]

\* The text of a uuid: hexadecimal digits and hyphens
IdText(testId) == <<"4", "-", DigitChar(testId)>>

\* The text of a timestamp after replace(/[:.]/g, '-'): digits, hyphens, T and Z
StampText(stamp) == <<"T", DigitChar(stamp[2]), "-", "0", "Z">>

\* The text of `${projectId}_${testId}_${timestamp}.zip`
FileNameText(zipFileName) ==
  Chars(zipFileName[1]) \o <<"_">> \o IdText(zipFileName[2]) \o <<"_">>
    \o StampText(zipFileName[3]) \o <<".", "z", "i", "p">>

\* /^[a-zA-Z0-9_\-]+\.zip$/.test(filename)
FilenameValid(filename) ==
  LET n == Len(filename)
  IN  /\ n > 4
      /\ SubSeq(filename, n - 3, n) = <<".", "z", "i", "p">>
      /\ \A i \in 1 .. n - 4 : filename[i] \in WordChars

\* text.split(sep)
RECURSIVE Split(_, _)
Split(text, sep) ==
  IF text = <<>> THEN << <<>> >>
  ELSE LET rest == Split(Tail(text), sep)
       IN  IF Head(text) = sep
             THEN << <<>> >> \o rest
             ELSE << <<Head(text)>> \o Head(rest) >> \o Tail(rest)

\* path.normalize over the segments: '' and '.' are dropped, '..' takes the
\* segment before it away
RECURSIVE Resolve(_, _)
Resolve(path, segments) ==
  IF segments = <<>> THEN path
  ELSE LET seg == Head(segments)
           up == <<".", ".">>
       IN  Resolve(IF seg = <<>> \/ seg = <<".">> THEN path
                   ELSE IF seg = up /\ path # <<>> /\ path[Len(path)] # up
                     THEN SubSeq(path, 1, Len(path) - 1)
                   ELSE Append(path, seg),
                   Tail(segments))

\* path.join(dir, text), dir a path below the directory of the application
PathJoin(dir, text) == Resolve(dir, Split(text, "/"))

\* reports/zips
ZipsDir == << <<"r", "e", "p", "o", "r", "t", "s">>, <<"z", "i", "p", "s">> >>

\* test-runs/<testId>
TestRunDir(testId) ==
  << <<"t", "e", "s", "t", "-", "r", "u", "n", "s">>, IdText(testId) >>

\* path.join(zipsDir, zipFileName): where createZip's output stream creates the file
BundlePath(zipFileName) == PathJoin(ZipsDir, FileNameText(zipFileName))

\* Is the path directly inside the directory
DirectlyIn(path, dir) ==
  Len(path) = Len(dir) + 1 /\ SubSeq(path, 1, Len(dir)) = dir

\* Is the path inside the tree of the directory
Under(path, dir) ==
  Len(path) > Len(dir) /\ SubSeq(path, 1, Len(dir)) = dir

VARIABLES
  clock,         \* Date.now(), in ticks
  runningTests,  \* TestRunner.runningTests: testId -> testResult
  resultJson,    \* test-runs/<testId>/result.json: testId -> text of the file
  testDirs,      \* testIds whose directory test-runs/<testId> exists
  zipFiles,      \* the files createZip's output streams created, by the
                 \* zipFileName joined to reports/zips: "partial" | "complete"
  job,           \* per job: what the route handler's closure holds
  pc,            \* per job: position of the pipeline
  proc,          \* per job: how exec settled, the stderr runTest still holds, and
                 \* the test-results.json the subprocess left behind
  promise,       \* per job: state of runTest's, createZip's and the chain's promise
  poll,          \* per job: the status request in flight, with the object it holds
  pollResp,      \* per job: the last status response sent, with the state
                 \* createZip's promise had when it was sent
  lastSubmit,    \* the last request this process answered on a submission route or
                 \* with DELETE: its route, what was wrong with it, the response
  issued,        \* the ids uuidv4() has returned; none is returned twice
  old,           \* the job directories and bundles modified more than 24 hours ago
  sweep,         \* position of cleanupOldTests
  listResp,      \* the last response of GET /api/test/list
  download,      \* the request of GET /api/download/:filename in flight, or the
                 \* last response of the route
  testFile,      \* generateTestFile: the testCode given and the body of the file
  archive,       \* createZip: what the job directory holds and the members added
  fetcher        \* DataFetcher of the page: its cache, the clock of the page, the
                 \* requests in flight and what the last call returned

vars == <<clock, runningTests, resultJson, testDirs, zipFiles, job, pc, proc,
          promise, poll, pollResp, lastSubmit, issued, old, sweep, listResp, download,
          testFile, archive, fetcher>>

\* What the retention sweep reads and writes besides the disk
sweepVars == <<old, sweep>>

\* What generateTestFile, the members of createZip and the DataFetcher of the
\* page are followed with, one function at a time
unitVars == <<testFile, archive, fetcher>>

pipelineVars == <<runningTests, resultJson, testDirs, zipFiles, job, pc, proc, promise>>

NoResp == [code |-> 0, status |-> "", downloadUrl |-> <<>>, zipAtSend |-> "none"]

\* No status request in flight
Idle == [at |-> "idle", held |-> <<>>]

\* The catch of the route: 404
NotFoundResp == [code |-> 404, status |-> "", downloadUrl |-> <<>>, zipAtSend |-> "none"]

NoProc == [outcome |-> "none", stderr |-> <<>>, results |-> [kind |-> "absent"]]

Pending == [runTest |-> "pending", createZip |-> "none", chain |-> "pending",
            zipCalls |-> 0, callbacks |-> 0, undelivered |-> 0]

NoSubmit == [route |-> "none", defect |-> "none", code |-> 0, testId |-> NoId]

\* No list requested yet
NoList == [code |-> 0, total |-> 0, tests |-> <<>>]

\* generateTestFile not called yet
NoTestFile == [testCode |-> <<>>, body |-> <<>>, written |-> FALSE]

\* createZip has added no member yet
NoArchive == [dir |-> FALSE, items |-> {}, parses |-> FALSE, at |-> "none", members |-> {},
              testInfo |-> FALSE, settled |-> "none"]

\* The DataFetcher as constructed: an empty cache; no call of fetchData yet
NewFetcher == [cache |-> <<>>, ticks |-> 0, calls |-> <<>>]

\* No download requested yet
NoDownload == [at |-> "idle", testId |-> NoId, filename |-> <<>>, stat |-> "none",
               code |-> 0, body |-> "none"]

Accepted == DOMAIN runningTests

Init ==
  /\ clock = 0
  /\ runningTests = <<>>
  /\ resultJson = <<>>
  /\ testDirs = {}
  /\ zipFiles = <<>>
  /\ job = <<>>
  /\ pc = <<>>
  /\ proc = <<>>
  /\ promise = <<>>
  /\ poll = <<>>
  /\ pollResp = <<>>
  /\ lastSubmit = NoSubmit
  /\ issued = {}
  /\ old = [dirs |-> {}, zips |-> {}]
  /\ sweep = "idle"
  /\ listResp = NoList
  /\ download = NoDownload
  /\ testFile = NoTestFile
  /\ archive = NoArchive
  /\ fetcher = NewFetcher

\* f with key k bound to v (Map#set, or a file being written)
Put(f, k, v) == [x \in DOMAIN f \cup {k} |-> IF x = k THEN v ELSE f[x]]

\* f without the keys of ks (files removed)
Without(f, ks) == [x \in DOMAIN f \ ks |-> f[x]]

\* JSON.stringify(testResult, null, 2): every field of the record is a string,
\* a number or an array or object of these, so the text holds them all
Stringify(rec) == <<"json", rec>>

\* The text a write of result.json leaves when the process dies in the middle
Truncated == <<"truncated">>

\* Does JSON.parse(text) return
Parses(text) == text[1] = "json"

\* JSON.parse(text), where it returns
JsonParse(text) == text[2]

(***************************************************************************)
(* TestRunner.runTest, synchronous head: the record registered as running  *)
(***************************************************************************)
\* As NewTestResult, with the job registered as queued
NewTestResultQueued(testId, projectId, browserType, now) ==
  [ testId      |-> testId,
    projectId   |-> projectId,
    status      |-> "queued",
    passed      |-> 0,
    failed      |-> 0,
    errors      |-> <<>>,
    duration    |-> 0,
    artifacts   |-> [reportPath |-> <<>>, zipPath |-> <<>>],
    browserType |-> browserType,
    startTime   |-> ToISOString(now),
    endTime     |-> <<>>,
    downloadUrl |-> <<>>,
    reportUrls  |-> FALSE ]

\* As NewTestResult, with a test counted as passed at registration
NewTestResultCounted(testId, projectId, browserType, now) ==
  [ testId      |-> testId,
    projectId   |-> projectId,
    status      |-> "running",
    passed      |-> 1,
    failed      |-> 0,
    errors      |-> <<>>,
    duration    |-> 0,
    artifacts   |-> [reportPath |-> <<>>, zipPath |-> <<>>],
    browserType |-> browserType,
    startTime   |-> ToISOString(now),
    endTime     |-> <<>>,
    downloadUrl |-> <<>>,
    reportUrls  |-> FALSE ]

NewTestResult(testId, projectId, browserType, now) ==
  [ testId      |-> testId,
    projectId   |-> projectId,
    status      |-> "running",
    passed      |-> 0,
    failed      |-> 0,
    errors      |-> <<>>,
    duration    |-> 0,
    artifacts   |-> [reportPath |-> <<>>, zipPath |-> <<>>],
    browserType |-> browserType,
    startTime   |-> ToISOString(now),
    endTime     |-> <<>>,
    downloadUrl |-> <<>>,
    reportUrls  |-> FALSE ]


(***************************************************************************)
(* Request bodies.  One shape serves the four routes: recordedTestCode of  *)
(* /api/test/convert sits in testCode, project_id of the run-tests webhook *)
(* in projectId, the length of test_case_ids in nCases.                    *)
(***************************************************************************)
Body(p, n, c, b, cb, auto, cases) ==
  [projectId |-> p, testName |-> n, testCode |-> c, browserType |-> b,
   callbackUrl |-> cb, autoExecute |-> auto, nCases |-> cases]

\* Bodies sent to POST /api/test/run
RunBodies ==
  { Body("proj", "name", "code", Missing, Missing, FALSE, 0),
    Body("proj", "name", "code", Missing, "http://cb", FALSE, 0),
    Body("proj", "name", "code", "firefox", Missing, FALSE, 0),
    Body("proj", "name", "code", "not-a-browser", Missing, FALSE, 0),
    Body(Missing, "name", "code", Missing, Missing, FALSE, 0),
    Body("proj", Missing, "code", Missing, Missing, FALSE, 0),
    Body("proj", "name", Missing, Missing, Missing, FALSE, 0) }

\* Bodies sent to POST /api/webhook/n8n
N8nBodies ==
  { Body("proj", "name", "code", Missing, Missing, FALSE, 0),
    Body("proj", "name", "code", "not-a-browser", Missing, FALSE, 0),
    Body("proj", "name", Missing, Missing, Missing, FALSE, 0) }

\* Bodies sent to POST /api/test/convert
ConvertBodies ==
  { Body(Missing, Missing, "code", Missing, Missing, TRUE, 0),
    Body("proj", Missing, "code", "not-a-browser", Missing, TRUE, 0),
    Body("proj", Missing, "code", Missing, Missing, FALSE, 0),
    Body("proj", Missing, Missing, Missing, Missing, TRUE, 0) }

\* Bodies sent to POST /webhook-test/run-tests
WebhookBodies ==
  { Body("proj", Missing, Missing, Missing, Missing, FALSE, 1),
    Body("proj", Missing, Missing, "not-a-browser", Missing, FALSE, 1),
    Body(Missing, Missing, Missing, Missing, Missing, FALSE, 1),
    Body("proj", Missing, Missing, Missing, Missing, FALSE, 0) }

\* What is wrong with a request, as its sender sees it: a required field of
\* the route is missing, or the engine selector is not one of the three
Defect(route, body) ==
  LET required ==
        IF route \in {"run", "n8n"}
          THEN {body.projectId, body.testName, body.testCode}
        ELSE IF route = "convert" THEN {body.testCode}
        ELSE {body.projectId, IF body.nCases > 0 THEN "cases" ELSE Missing}
  IN  IF Missing \in required THEN "missing"
      ELSE IF body.browserType \notin validBrowsers \cup {Missing} THEN "browser"
      ELSE "none"

(***************************************************************************)
(* Validation of the routes                                                *)
(***************************************************************************)
\* As RunValidation, without the check of the engine
RunValidationFieldsOnly(body) ==
  IF ~Truthy(body.projectId) \/ ~Truthy(body.testName) \/ ~Truthy(body.testCode)
    THEN "missing"
  ELSE "ok"

\* POST /api/test/run: 400 unless the three fields are there and the engine is known
RunValidation(body) ==
  IF ~Truthy(body.projectId) \/ ~Truthy(body.testName) \/ ~Truthy(body.testCode)
    THEN "missing"
  ELSE IF Default(body.browserType, "chromium") \notin validBrowsers
    THEN "browser"
  ELSE "ok"

\* POST /api/test/convert: 400 unless recordedTestCode is there
ConvertValidation(body) ==
  IF ~Truthy(body.testCode) THEN "missing" ELSE "ok"

\* POST /webhook-test/run-tests: 400 unless project_id and a non-empty test_case_ids
WebhookValidation(body) ==
  IF ~Truthy(body.projectId) \/ body.nCases = 0 THEN "missing" ELSE "ok"

\* POST /api/webhook/n8n: 400 unless the three fields are there; the rest is forwarded
N8nValidation(body) ==
  IF ~Truthy(body.projectId) \/ ~Truthy(body.testName) \/ ~Truthy(body.testCode)
    THEN "missing"
  ELSE "ok"

\* As RunResponse, with the response held back until the job is over
RunResponseHeldBack(route, testId) == [code |-> 0, testId |-> NoId]

\* The response that carries the job id; it is sent in the block that called runTest
RunResponse(route, testId) ==
  [code |-> IF route = "run" THEN 202 ELSE 200, testId |-> testId]

(***************************************************************************)
(* A request that starts no job (turned down, or a conversion alone):      *)
(* nothing but the response                                                *)
(***************************************************************************)
RespondWithoutJob(route, body, code) ==
  /\ lastSubmit' = [route |-> route, defect |-> Defect(route, body), code |-> code,
                    testId |-> NoId]
  /\ UNCHANGED <<clock, pipelineVars, poll, pollResp, issued, sweepVars, listResp, download, unitVars>>

(***************************************************************************)
(* A request is accepted: uuidv4(), the timestamp of the handler, then     *)
(* runTest up to its first await (the record registered as running, mkdir  *)
(* issued), the continuation attached, and the response.  d is the time    *)
(* that passes between the handler's and runTest's reading of the clock.   *)
(* uuidv4() returns an id it has not returned before; which one does not   *)
(* matter, and the least unused is taken.                                  *)
(***************************************************************************)
AcceptOf(ids, route, body, projectId, browserType, callbackUrl) ==
  \E testId \in ids \ issued : \E d \in 0 .. 1 :
    /\ \A unused \in ids \ issued : testId <= unused
    /\ clock + d <= MaxClock
    /\ issued' = issued \cup {testId}
    /\ clock' = clock + d
    /\ runningTests' = Put(runningTests, testId,
                           NewTestResult(testId, projectId, browserType, clock + d))
    /\ job' = Put(job, testId,
                  [ route       |-> route,
                    projectId   |-> projectId,
                    timestamp   |-> Stamp(ToISOString(clock)),
                    callbackUrl |-> callbackUrl,
                    response    |-> RunResponse(route, testId) ])
    /\ pc' = Put(pc, testId, "materialize")
    /\ proc' = Put(proc, testId, NoProc)
    /\ promise' = Put(promise, testId, Pending)
    /\ poll' = Put(poll, testId, Idle)
    /\ pollResp' = Put(pollResp, testId, NoResp)
    /\ lastSubmit' = [route |-> route, defect |-> Defect(route, body),
                      code |-> RunResponse(route, testId).code, testId |-> testId]
    /\ UNCHANGED <<resultJson, testDirs, zipFiles, sweepVars, listResp, download, unitVars>>

Accept(route, body, projectId, browserType, callbackUrl) ==
  AcceptOf(Ids, route, body, projectId, browserType, callbackUrl)

\* POST /api/test/run
PostTestRun ==
  \E body \in RunBodies :
    IF RunValidation(body) = "ok"
      THEN Accept("run", body, body.projectId, Default(body.browserType, "chromium"),
                  body.callbackUrl)
      ELSE RespondWithoutJob("run", body, 400)

\* POST /api/test/run, for the jobs of a burst
PostTestRunBurst ==
  \E body \in RunBodies :
    IF RunValidation(body) = "ok"
      THEN AcceptOf(BurstIds, "run", body, body.projectId,
                    Default(body.browserType, "chromium"), body.callbackUrl)
      ELSE RespondWithoutJob("run", body, 400)

\* POST /api/test/convert
PostTestConvert ==
  \E body \in ConvertBodies :
    IF ConvertValidation(body) # "ok"
      THEN RespondWithoutJob("convert", body, 400)
    ELSE IF ~body.autoExecute
      THEN RespondWithoutJob("convert", body, 200)
    ELSE Accept("convert", body, Default(body.projectId, "recorded-test"),
                Default(body.browserType, "chromium"), Missing)

\* POST /webhook-test/run-tests
PostWebhookRunTests ==
  \E body \in WebhookBodies :
    IF WebhookValidation(body) # "ok"
      THEN RespondWithoutJob("webhook", body, 400)
      ELSE Accept("webhook", body, body.projectId,
                  Default(body.browserType, "chromium"), Missing)

\* POST /api/webhook/n8n: forwards to POST /api/test/run with a callbackUrl and
\* relays the body of its answer with res.json, a 400 of the inner route too
PostWebhookN8n ==
  \E body \in N8nBodies :
    IF N8nValidation(body) # "ok"
      THEN RespondWithoutJob("n8n", body, 400)
    ELSE IF RunValidation(body) # "ok"
      THEN RespondWithoutJob("n8n", body, 200)
    ELSE Accept("n8n", body, body.projectId, Default(body.browserType, "chromium"),
                Default(body.callbackUrl, "http://host/api/webhook/callback"))


(***************************************************************************)
(* The runner subprocess: how exec settles, what it wrote to stderr and    *)
(* what it left in test-results.json                                       *)
(***************************************************************************)
ExecOutcomes == {"exit0", "nonzero", "timeout", "spawnError"}

StderrTexts == {<<>>, <<"warning">>, <<"error">>}

Absent == [kind |-> "absent"]

\* status, error and duration of suites[0].specs[0].tests[0].results[0]
ResultDoc(status, error, duration) ==
  [kind |-> "result", status |-> status, error |-> error, duration |-> duration]

\* An error object of the JSON report: has it a message or not
NoError == [present |-> FALSE, message |-> <<>>]
ErrorWith(message) == [present |-> TRUE, message |-> message]

ResultDocs ==
  { ResultDoc("passed", NoError, 7),
    ResultDoc("failed", ErrorWith(<<"expect", "failed">>), 7),
    ResultDoc("timedOut", ErrorWith(<<>>), 0) }

\* absent: no file; malformed: JSON.parse throws; null: the document null;
\* empty: a document that lacks a first suite, spec, test or result
ResultsFiles ==
  {Absent, [kind |-> "malformed"], [kind |-> "null"], [kind |-> "empty"]} \cup ResultDocs

\* What a subprocess that did not exit 0 may have left behind
PartialResultsFiles ==
  {Absent, ResultDoc("passed", NoError, 7),
   ResultDoc("failed", ErrorWith(<<"expect", "failed">>), 7)}

\* exec's error: 'Command failed: ' + cmd + '\n' + stderr for a nonzero exit and
\* for a child killed on timeout alike; the system error when the spawn failed
ExecErrorMessage(outcome, stderr) ==
  IF outcome = "spawnError"
    THEN <<"spawn", "ENOENT">>
    ELSE <<"Command", "failed:", "npx playwright test">> \o stderr

ErrorEntry(message, stack, now) ==
  [message |-> message, stack |-> stack, timestamp |-> ToISOString(now)]

(***************************************************************************)
(* TestRunner.runTest: catch, and the synchronous part of finally          *)
(***************************************************************************)
\* As Catch, with the counts left as they were
CatchStatusOnly(rec, message, now) ==
  [rec EXCEPT !.status = "failed",
              !.errors = Append(@, ErrorEntry(message, <<"stack">>, now))]

\* catch (error): the job is failed with the error appended
Catch(rec, message, now) ==
  [rec EXCEPT !.status = "failed", !.failed = 1, !.passed = 0,
              !.errors = Append(@, ErrorEntry(message, <<"stack">>, now))]

\* finally: duration when not set, endTime (the Map#set stores the same object)
Finally(rec, now) ==
  [rec EXCEPT !.duration = IF @ = 0 THEN now - rec.startTime[2] ELSE @,
              !.endTime = ToISOString(now)]

\* JSON.parse of the file read, null when reading or parsing threw
PlaywrightResults(results) ==
  IF results.kind \in {"absent", "malformed", "null"} THEN [kind |-> "null"] ELSE results

\* Lines 175-219: the verdict from the parsed results or from stderr, then reportPath
ParseResults(rec, results, stderr, now) ==
  LET parsed == PlaywrightResults(results)
      fromResults ==
        IF parsed.kind = "result"
          THEN [rec EXCEPT
                  !.status = IF parsed.status = "passed" THEN "passed" ELSE "failed",
                  !.passed = IF parsed.status = "passed" THEN 1 ELSE 0,
                  !.failed = IF parsed.status = "passed" THEN 0 ELSE 1,
                  !.duration = parsed.duration,
                  !.errors = IF parsed.error.present
                               THEN Append(@, ErrorEntry(
                                      IF parsed.error.message # <<>>
                                        THEN parsed.error.message
                                        ELSE <<"Test", "failed">>,
                                      <<>>, now))
                               ELSE @]
          ELSE rec
      status == IF Includes(stderr, "failed") \/ Includes(stderr, "error")
                  THEN "failed" ELSE "passed"
      fromStderr ==
        IF parsed.kind = "null"
          THEN [fromResults EXCEPT
                  !.status = status,
                  !.passed = IF status = "passed" THEN 1 ELSE 0,
                  !.failed = IF status = "failed" THEN 1 ELSE 0,
                  !.errors = IF stderr # <<>>
                               THEN Append(@, ErrorEntry(<<"Test", "execution", "error">>,
                                                         stderr, now))
                               ELSE @]
          ELSE fromResults
  IN  [fromStderr EXCEPT !.artifacts.reportPath = <<"test-runs", rec.testId, "playwright-report">>]


(***************************************************************************)
(* The pipeline of one job.  The testResult object of runTest is the       *)
(* object the registry holds, so a write to it is a write to               *)
(* runningTests[testId].                                                   *)
(***************************************************************************)
At(id, where) == id \in Accepted /\ pc[id] = where

\* As Fail, with the write of result.json skipped
FailStraightToZip(id, message) ==
  /\ runningTests' = [runningTests EXCEPT
                        ![id] = Finally(Catch(@, message, clock'), clock')]
  /\ pc' = [pc EXCEPT ![id] = "zipOpen"]

\* catch and finally of runTest, up to the await of the write of result.json
Fail(id, message) ==
  /\ runningTests' = [runningTests EXCEPT
                        ![id] = Finally(Catch(@, message, clock'), clock')]
  /\ pc' = [pc EXCEPT ![id] = "save"]

\* Lines 116-138: mkdir, the test file and the config; then exec is called.
\* writeFailed stands for every throw after the mkdir (a write that fails, a
\* testName, headless or viewport of the wrong type).
Materialize ==
  \E id \in Accepted : \E outcome \in {"ok", "mkdirFailed", "writeFailed"} :
    /\ At(id, "materialize")
    /\ clock' = clock
    /\ testDirs' = IF outcome = "mkdirFailed" THEN testDirs ELSE testDirs \cup {id}
    /\ IF outcome = "ok"
         THEN /\ pc' = [pc EXCEPT ![id] = "exec"]
              /\ proc' = [proc EXCEPT ![id].outcome = "running"]
              /\ UNCHANGED runningTests
         ELSE /\ Fail(id, <<outcome>>)
              /\ UNCHANGED proc
    /\ UNCHANGED <<resultJson, zipFiles, job, promise, poll, pollResp, lastSubmit, issued, sweepVars, listResp, download, unitVars>>

\* Lines 156-160: exec settles
ExecSettles ==
  \E id \in Accepted : \E outcome \in ExecOutcomes : \E stderr \in StderrTexts :
  \E results \in ResultsFiles :
    /\ At(id, "exec")
    /\ clock' = clock
    /\ outcome = "spawnError" => stderr = <<>> /\ results = Absent
    /\ outcome \in {"nonzero", "timeout"} => results \in PartialResultsFiles
    /\ proc' = [proc EXCEPT ![id] = [outcome |-> outcome,
                                     stderr |-> IF outcome = "exit0" THEN stderr ELSE <<>>,
                                     results |-> results]]
    /\ IF outcome = "exit0"
         THEN /\ pc' = [pc EXCEPT ![id] = "parse"]
              /\ UNCHANGED runningTests
         ELSE Fail(id, ExecErrorMessage(outcome, stderr))
    /\ UNCHANGED <<resultJson, testDirs, zipFiles, job, promise, poll, pollResp,
                   lastSubmit, issued, sweepVars, listResp, download, unitVars>>

\* Lines 164-225 and finally: test-results.json is read and the verdict recorded
ParseStep ==
  \E id \in Accepted :
    /\ At(id, "parse")
    /\ runningTests' = [runningTests EXCEPT
                          ![id] = Finally(ParseResults(@, proc[id].results,
                                                       proc[id].stderr, clock), clock)]
    /\ pc' = [pc EXCEPT ![id] = "save"]
    /\ proc' = [proc EXCEPT ![id].stderr = <<>>]
    /\ UNCHANGED <<clock, resultJson, testDirs, zipFiles, job, promise, poll,
                   pollResp, lastSubmit, issued, sweepVars, listResp, download, unitVars>>

\* As SavedText, with the record as it was registered
SavedTextStale(rec) == Stringify([rec EXCEPT !.status = "running"])

\* Lines 251-255 of runTest and 510-512 of the route: the text written to
\* result.json is the record as it is at that moment
SavedText(rec) == Stringify(rec)

\* As RunTestSettles, with the failed write rethrown
RunTestSettlesRethrown(saved) == IF saved THEN "fulfilled" ELSE "rejected"

\* How runTest's promise settles after the write of result.json: the inner
\* try/catch logs a failed write, and runTest returns testResult
RunTestSettles(saved) == "fulfilled"

\* The rejection handler of the chain: /api/test/convert logs the error, the
\* other routes log and rethrow it
ChainAfterReject(route) == IF route = "convert" THEN "fulfilled" ELSE "rejected"

\* What the sweep finds older than its cutoff, after entries were created in
\* the directories dirs and the files zips were written: stats.mtime is theirs
Touched(aged, dirs, zips) == [dirs |-> aged.dirs \ dirs, zips |-> aged.zips \ zips]

\* Lines 251-261 and the head of the continuation: result.json is written (it
\* cannot be when the directory is not there), runTest returns and the
\* continuation calls createZip, which awaits the mkdir of reports/zips
SaveResult ==
  \E id \in Accepted : \E saved \in BOOLEAN :
    /\ At(id, "save")
    /\ saved => id \in testDirs
    /\ resultJson' = IF saved THEN Put(resultJson, id, SavedText(runningTests[id]))
                             ELSE resultJson
    /\ IF RunTestSettles(saved) = "fulfilled"
         THEN /\ promise' = [promise EXCEPT ![id].runTest = "fulfilled",
                                            ![id].createZip = "pending",
                                            ![id].zipCalls = @ + 1]
              /\ pc' = [pc EXCEPT ![id] = "zipOpen"]
         ELSE /\ promise' = [promise EXCEPT ![id].runTest = "rejected",
                                            ![id].chain = ChainAfterReject(job[id].route)]
              /\ pc' = [pc EXCEPT ![id] = "done"]
    /\ old' = IF saved /\ id \notin DOMAIN resultJson THEN Touched(old, {id}, {}) ELSE old
    /\ UNCHANGED <<clock, runningTests, testDirs, zipFiles, job, proc, poll, pollResp,
                   lastSubmit, issued, sweep, listResp, download, unitVars>>


(***************************************************************************)
(* ZipService.createZip and the continuation of the route                  *)
(***************************************************************************)
\* The bundle of the job: the name the route built from its own timestamp
ZipNameOf(id) == ZipFileName(job[id].projectId, id, job[id].timestamp)

\* As ZipRejects, with the packaging failure recorded as the job's verdict
ZipRejectsFailingJob(id) ==
  /\ promise' = [promise EXCEPT ![id].createZip = "rejected",
                                ![id].chain = ChainAfterReject(job[id].route)]
  /\ pc' = [pc EXCEPT ![id] = "done"]
  /\ runningTests' = [runningTests EXCEPT ![id].status = "failed"]

\* As ZipRejects, with createZip's promise left pending
ZipRejectsUnsettled(id) ==
  /\ promise' = [promise EXCEPT ![id].chain = ChainAfterReject(job[id].route)]
  /\ pc' = [pc EXCEPT ![id] = "done"]
  /\ UNCHANGED runningTests

\* reject(err) of createZip, then the catch of the continuation
ZipRejects(id) ==
  /\ promise' = [promise EXCEPT ![id].createZip = "rejected",
                                ![id].chain = ChainAfterReject(job[id].route)]
  /\ pc' = [pc EXCEPT ![id] = "done"]
  /\ UNCHANGED runningTests

\* As WithZip, with the download URL forgotten
WithZipPathOnly(rec, zipFileName) ==
  [rec EXCEPT !.artifacts.zipPath = ZipPathOf(zipFileName)]

\* The record after createZip resolved: lines 506-507
WithZip(rec, zipFileName) ==
  [rec EXCEPT !.artifacts.zipPath = ZipPathOf(zipFileName),
              !.downloadUrl = DownloadUrlOf(zipFileName)]

\* Lines 15-18: mkdir of reports/zips, then the output stream creates the file
ZipOpen ==
  \E id \in Accepted : \E outcome \in {"opened", "mkdirFailed", "openFailed"} :
    /\ At(id, "zipOpen")
    /\ IF outcome = "opened"
         THEN /\ zipFiles' = Put(zipFiles, ZipNameOf(id), "partial")
              /\ pc' = [pc EXCEPT ![id] = "zipAccess"]
              /\ UNCHANGED <<promise, runningTests>>
         ELSE /\ ZipRejects(id)
              /\ UNCHANGED zipFiles
    /\ UNCHANGED <<clock, resultJson, testDirs, job, proc, poll, pollResp, lastSubmit, issued, sweepVars, listResp, download, unitVars>>

\* Lines 55-60: the job directory must be there; the file the stream opened stays
ZipAccess ==
  \E id \in Accepted :
    /\ At(id, "zipAccess")
    /\ IF id \in testDirs
         THEN /\ pc' = [pc EXCEPT ![id] = "zipFinalize"]
              /\ UNCHANGED <<promise, runningTests>>
         ELSE ZipRejects(id)
    /\ UNCHANGED <<clock, resultJson, testDirs, zipFiles, job, proc, poll, pollResp,
                   lastSubmit, issued, sweepVars, listResp, download, unitVars>>

\* Lines 62-133 and 24-47: the members are added and the archive finalized; on
\* 'close' the promise resolves and the continuation writes zipPath and
\* downloadUrl, then awaits the write of result.json
ZipFinalize ==
  \E id \in Accepted : \E outcome \in {"closed", "archiveError"} :
    /\ At(id, "zipFinalize")
    /\ IF outcome = "closed"
         THEN /\ zipFiles' = IF ZipNameOf(id) \in DOMAIN zipFiles
                                THEN [zipFiles EXCEPT ![ZipNameOf(id)] = "complete"]
                                ELSE zipFiles
              /\ promise' = [promise EXCEPT ![id].createZip = "fulfilled"]
              /\ runningTests' = [runningTests EXCEPT ![id] = WithZip(@, ZipNameOf(id))]
              /\ pc' = [pc EXCEPT ![id] = "resave"]
              /\ old' = Touched(old, {}, {ZipNameOf(id)})
         ELSE /\ ZipRejects(id)
              /\ UNCHANGED <<zipFiles, old>>
    /\ UNCHANGED <<clock, resultJson, testDirs, job, proc, poll, pollResp, lastSubmit, issued,
                   sweep, listResp, download, unitVars>>

\* Lines 509-521: result.json is written again (a failure is logged), the
\* registry is set again; then the callback, when the request gave a URL
Resave ==
  \E id \in Accepted : \E saved \in BOOLEAN :
    /\ At(id, "resave")
    /\ saved => id \in testDirs
    /\ resultJson' = IF saved THEN Put(resultJson, id, SavedText(runningTests[id]))
                             ELSE resultJson
    /\ IF Truthy(job[id].callbackUrl)
         THEN /\ pc' = [pc EXCEPT ![id] = "callback"]
              /\ UNCHANGED promise
         ELSE /\ pc' = [pc EXCEPT ![id] = "done"]
              /\ promise' = [promise EXCEPT ![id].chain = "fulfilled"]
    /\ old' = IF saved /\ id \notin DOMAIN resultJson THEN Touched(old, {id}, {}) ELSE old
    /\ UNCHANGED <<clock, runningTests, testDirs, zipFiles, job, proc, poll, pollResp,
                   lastSubmit, issued, sweep, listResp, download, unitVars>>

\* As ChainAfterCallback, with the failed delivery rethrown
ChainAfterCallbackRethrown(delivered) == IF delivered THEN "fulfilled" ELSE "rejected"

\* Lines 547-559: the inner try/catch logs a delivery that failed, and the
\* continuation returns testResult
ChainAfterCallback(delivered) == "fulfilled"

\* Lines 523-560: axios.post settles; a failure is logged
Callback ==
  \E id \in Accepted : \E delivered \in BOOLEAN :
    /\ At(id, "callback")
    /\ promise' = [promise EXCEPT ![id].callbacks = @ + 1,
                                  ![id].undelivered = IF delivered THEN @ ELSE @ + 1,
                                  ![id].chain = ChainAfterCallback(delivered)]
    /\ pc' = [pc EXCEPT ![id] = "done"]
    /\ UNCHANGED <<clock, runningTests, resultJson, testDirs, zipFiles, job, proc, poll,
                   pollResp, lastSubmit, issued, sweepVars, listResp, download, unitVars>>

(***************************************************************************)
(* GET /api/test/status/:testId                                            *)
(***************************************************************************)
\* As getTestStatus, without the reading of result.json
getTestStatusMapOnly(testId) ==
  IF testId \in DOMAIN runningTests THEN <<runningTests[testId]>> ELSE <<>>

\* As getTestStatus, without the look into the registry
getTestStatusDiskOnly(testId) ==
  IF testId \in DOMAIN resultJson /\ Parses(resultJson[testId])
    THEN <<JsonParse(resultJson[testId])>>
  ELSE <<>>

\* TestRunner.getTestStatus: <<record>> where it returns, <<>> where it throws
\* 'Test not found'.  The record of the registry is the registry's own object;
\* the record read from result.json is a new object.
getTestStatus(testId) ==
  IF testId \in DOMAIN runningTests
    THEN <<runningTests[testId]>>
  ELSE IF testId \in DOMAIN resultJson /\ Parses(resultJson[testId])
    THEN <<JsonParse(resultJson[testId])>>
  ELSE <<>>

\* Is the finished bundle of the job in reports/zips
BundleOnDisk(id) ==
  \E name \in DOMAIN zipFiles : name[2] = id /\ zipFiles[name] = "complete"

\* The state of createZip's promise for the job; for a job of an earlier
\* process, whether its finished bundle is on disk
ZipState(id) ==
  IF id \in DOMAIN promise THEN promise[id].createZip
  ELSE IF BundleOnDisk(id) THEN "fulfilled"
  ELSE "none"

\* Lines 751-763: reportUrls, the download URL made absolute, the response.
\* When status is the object of the registry (shared), the writes land in the
\* registry.
Respond(id, rec, shared) ==
  LET out == [rec EXCEPT !.reportUrls = TRUE,
                         !.downloadUrl = IF @ # <<>> /\ ~StartsWithHttp(@)
                                           THEN <<BaseUrl>> \o @ ELSE @]
  IN  /\ runningTests' = IF shared THEN [runningTests EXCEPT ![id] = out]
                                   ELSE runningTests
      /\ pollResp' = [pollResp EXCEPT ![id] = [code |-> 200, status |-> out.status,
                                               downloadUrl |-> out.downloadUrl,
                                               zipAtSend |-> ZipState(id)]]
      /\ poll' = [poll EXCEPT ![id] = Idle]

\* Line 737: is the bundle looked for on disk
LooksForZip(rec) == rec.status # "running" /\ rec.downloadUrl = <<>>

\* Lines 738-739: the bundle's name as the status route rebuilds it
StatusZipName(rec) == ZipFileName(rec.projectId, rec.testId, Stamp(rec.startTime))

\* Lines 731-737 and 764-770: getTestStatus returns or throws.  The request is
\* for an id some response has carried.
GetStatus ==
  \E id \in issued :
    /\ poll[id] = Idle
    /\ LET got == getTestStatus(id)
       IN  IF got = <<>>
             THEN /\ pollResp' = [pollResp EXCEPT ![id] = NotFoundResp]
                  /\ UNCHANGED <<poll, runningTests>>
           ELSE IF LooksForZip(got[1])
             THEN /\ poll' = [poll EXCEPT
                                ![id] = [at |-> "access",
                                         held |-> IF id \in Accepted THEN <<>> ELSE got]]
                  /\ pollResp' = [pollResp EXCEPT ![id] = NoResp]
                  /\ UNCHANGED runningTests
           ELSE Respond(id, got[1], id \in Accepted)
    /\ UNCHANGED <<clock, resultJson, testDirs, zipFiles, job, pc, proc, promise,
                   lastSubmit, issued, sweepVars, listResp, download, unitVars>>

\* Lines 742-763: fs.access of the rebuilt name settles
GetStatusAccess ==
  \E id \in issued :
    /\ poll[id].at = "access"
    /\ LET shared == poll[id].held = <<>>
           rec == IF shared THEN runningTests[id] ELSE poll[id].held[1]
           name == StatusZipName(rec)
       IN  Respond(id, IF name \in DOMAIN zipFiles
                         THEN [rec EXCEPT !.downloadUrl = DownloadUrlOf(name)]
                         ELSE rec,
                   shared)
    /\ UNCHANGED <<clock, resultJson, testDirs, zipFiles, job, pc, proc, promise,
                   lastSubmit, issued, sweepVars, listResp, download, unitVars>>

(***************************************************************************)
(* DELETE /api/report/:testId: no route takes the method, the request      *)
(* falls through to the 404 handler                                        *)
(***************************************************************************)
DeleteReport ==
  \E id \in issued :
    /\ lastSubmit' = [route |-> "delete", defect |-> "none", code |-> 404,
                      testId |-> id]
    /\ UNCHANGED <<clock, pipelineVars, poll, pollResp, issued, sweepVars, listResp, download, unitVars>>

(***************************************************************************)
(* cleanupOldTests, run every 6 hours and on SIGTERM/SIGINT.  A sweep that *)
(* finds nothing old changes nothing and is left out.                      *)
(***************************************************************************)
\* 24 hours pass: what is on disk becomes older than the cutoff.  The runner
\* is killed after 300 s and the other steps of a pipeline are local file
\* operations, so no pipeline is in flight that long.
DayPasses ==
  /\ \A id \in Accepted : pc[id] = "done"
  /\ sweep = "idle"
  /\ old' = [dirs |-> testDirs,
             zips |-> {name \in DOMAIN zipFiles : DirectlyIn(BundlePath(name), ZipsDir)}]
  /\ old' # old
  /\ UNCHANGED <<clock, pipelineVars, poll, pollResp, lastSubmit, issued, sweep,
                 listResp, download, unitVars>>

\* As CleanupTestRuns, with the cutoff ignored
CleanupTestRunsAll ==
  /\ sweep = "idle"
  /\ (old.dirs # {} \/ old.zips # {})
  /\ testDirs' = {}
  /\ resultJson' = <<>>
  /\ old' = [old EXCEPT !.dirs = {}]
  /\ sweep' = "zips"
  /\ UNCHANGED <<clock, runningTests, zipFiles, job, pc, proc, promise, poll, pollResp,
                 lastSubmit, issued, listResp, download, unitVars>>

\* Lines 1403-1412: the old directories of test-runs are removed
CleanupTestRuns ==
  /\ sweep = "idle"
  /\ (old.dirs # {} \/ old.zips # {})
  /\ testDirs' = testDirs \ old.dirs
  /\ resultJson' = Without(resultJson, old.dirs)
  /\ old' = [old EXCEPT !.dirs = {}]
  /\ sweep' = "zips"
  /\ UNCHANGED <<clock, runningTests, zipFiles, job, pc, proc, promise, poll, pollResp,
                 lastSubmit, issued, listResp, download, unitVars>>

\* Lines 1414-1424: the old files of reports/zips are removed
CleanupZips ==
  /\ sweep = "zips"
  /\ zipFiles' = Without(zipFiles, old.zips)
  /\ old' = [old EXCEPT !.zips = {}]
  /\ sweep' = "idle"
  /\ UNCHANGED <<clock, runningTests, resultJson, testDirs, job, pc, proc, promise, poll,
                 pollResp, lastSubmit, issued, listResp, download, unitVars>>

(***************************************************************************)
(* The process ends (process.exit after a signal, a crash, a redeploy) and *)
(* is started again: the registry is a new Map, the pipelines and requests *)
(* in flight are gone, the disk is as it was.  A write of result.json in   *)
(* flight may leave the file cut short.                                    *)
(***************************************************************************)
Restart ==
  \E torn \in SUBSET {id \in Accepted : pc[id] \in {"save", "resave"} /\ id \in testDirs} :
    /\ issued # {}
    /\ runningTests' = <<>>
    /\ job' = <<>>
    /\ pc' = <<>>
    /\ proc' = <<>>
    /\ promise' = <<>>
    /\ resultJson' = [id \in DOMAIN resultJson \cup torn |->
                        IF id \in torn THEN Truncated ELSE resultJson[id]]
    /\ poll' = [id \in issued |-> Idle]
    /\ pollResp' = [id \in issued |-> NoResp]
    /\ lastSubmit' = NoSubmit
    /\ sweep' = "idle"
    /\ download' = NoDownload
    /\ UNCHANGED <<clock, testDirs, zipFiles, issued, old, listResp, unitVars>>

(***************************************************************************)
(* GET /api/test/list                                                      *)
(***************************************************************************)
\* tests.slice(0, 100)
ListLimit == 100

\* new Date(iso), as the number the subtraction of the comparator takes
DateOf(iso) == iso[2]

\* fs.readdir(testRunsDir): the names of the directories, in ascending order
RECURSIVE Readdir(_)
Readdir(dirs) ==
  IF dirs = {} THEN <<>>
  ELSE LET first == CHOOSE d \in dirs : \A e \in dirs : d <= e
       IN  <<first>> \o Readdir(dirs \ {first})

\* Lines 1216-1224: what the list shows of a parsed result
ListEntry(testResult) ==
  [ testId    |-> testResult.testId,
    projectId |-> testResult.projectId,
    status    |-> testResult.status,
    duration  |-> testResult.duration,
    startTime |-> testResult.startTime,
    endTime   |-> testResult.endTime ]

\* Lines 1210-1229: the loop over the entries; an entry whose result.json
\* cannot be read or parsed is skipped
RECURSIVE Collect(_, _)
Collect(entries, tests) ==
  IF entries = <<>> THEN tests
  ELSE LET entry == Head(entries)
           readable == entry \in DOMAIN resultJson /\ Parses(resultJson[entry])
       IN  Collect(Tail(entries),
                   IF readable
                     THEN Append(tests, ListEntry(JsonParse(resultJson[entry])))
                     ELSE tests)

\* a with x put before the first element that started earlier than x
RECURSIVE InsertNewestFirst(_, _)
InsertNewestFirst(a, x) ==
  IF a = <<>> THEN <<x>>
  ELSE IF DateOf(Head(a).startTime) < DateOf(x.startTime) THEN <<x>> \o a
  ELSE <<Head(a)>> \o InsertNewestFirst(Tail(a), x)

\* Line 1232: tests.sort((a, b) => new Date(b.startTime) - new Date(a.startTime)),
\* a stable sort
RECURSIVE Sort(_)
Sort(tests) ==
  IF tests = <<>> THEN <<>>
  ELSE InsertNewestFirst(Sort(SubSeq(tests, 1, Len(tests) - 1)), tests[Len(tests)])

\* tests.slice(0, n)
Slice(tests, n) == SubSeq(tests, 1, IF Len(tests) < n THEN Len(tests) ELSE n)

\* As ListResponse, with the list cut before it is sorted
ListResponseCutFirst(tests) ==
  [code |-> 200, total |-> Len(tests), tests |-> Sort(Slice(tests, ListLimit))]

\* Lines 1232-1237: the list sorted, then the response
ListResponse(tests) ==
  [code |-> 200, total |-> Len(tests), tests |-> Slice(Sort(tests), ListLimit)]

GetTestList ==
  /\ listResp' = ListResponse(Collect(Readdir(testDirs), <<>>))
  /\ UNCHANGED <<clock, pipelineVars, poll, pollResp, lastSubmit, issued, sweepVars,
                 download, unitVars>>

(***************************************************************************)
(* GET /api/download/:filename.  The requests are for the file names the   *)
(* 202 responses announced in reportUrls.download.                         *)
(***************************************************************************)
\* The files at a path
FilesAt(path) == {name \in DOMAIN zipFiles : BundlePath(name) = path}

\* Lines 775-789: the pattern, then fs.access, fs.stat and getZipInfo of the file
GetDownload ==
  \E id \in Accepted :
    LET filename == FileNameText(ZipNameOf(id))
        found == FilesAt(PathJoin(ZipsDir, filename))
        refused(code) == [at |-> "idle", testId |-> id, filename |-> filename,
                          stat |-> "none", code |-> code, body |-> "none"]
    IN  /\ download.at = "idle"
        /\ download' =
             IF ~FilenameValid(filename) THEN refused(400)
             ELSE IF found = {} THEN refused(404)
             ELSE [at |-> "stream", testId |-> id, filename |-> filename,
                   stat |-> zipFiles[CHOOSE name \in found : TRUE],
                   code |-> 0, body |-> "none"]
        /\ UNCHANGED <<clock, pipelineVars, poll, pollResp, lastSubmit, issued,
                       sweepVars, listResp, unitVars>>

\* Lines 791-817: Content-Length from the stat, then the file is streamed as
\* it is; a file that is gone makes the stream fail before the headers are sent
GetDownloadStream ==
  /\ download.at = "stream"
  /\ download' =
       IF FilesAt(PathJoin(ZipsDir, download.filename)) = {}
         THEN [download EXCEPT !.at = "idle", !.code = 500]
         ELSE [download EXCEPT !.at = "idle", !.code = 200,
                               !.body = IF download.stat = "complete"
                                          THEN "complete" ELSE "partial"]
  /\ UNCHANGED <<clock, pipelineVars, poll, pollResp, lastSubmit, issued, sweepVars,
                 listResp, unitVars>>

Next ==
  \/ PostTestRun
  \/ PostTestConvert
  \/ PostWebhookRunTests
  \/ PostWebhookN8n
  \/ Materialize
  \/ ExecSettles
  \/ ParseStep
  \/ SaveResult
  \/ ZipOpen
  \/ ZipAccess
  \/ ZipFinalize
  \/ Resave
  \/ Callback
  \/ GetStatus
  \/ GetStatusAccess
  \/ DeleteReport
  \/ DayPasses
  \/ CleanupTestRuns
  \/ CleanupZips
  \/ Restart

Spec == Init /\ [][Next]_vars

\* A burst of submissions to POST /api/test/run, up to the start of the runner
\* subprocesses.  Every behaviour of it is a behaviour of the server when
\* MaxBurst requests arrive.
NextBurst ==
  \/ PostTestRunBurst
  \/ Materialize

SpecBurst == Init /\ [][NextBurst]_vars

(***************************************************************************)
(* Jobs of POST /api/test/run under several project identifiers, and the   *)
(* downloads of their bundles                                              *)
(***************************************************************************)
\* projectId is any non-empty string of the body
ProjectIds == {"proj", "a b", "../p"}

NamedRunBodies ==
  {Body(p, "name", "code", Missing, Missing, FALSE, 0) : p \in ProjectIds}

\* POST /api/test/run, for the jobs whose bundles are downloaded
PostTestRunNamed ==
  \E body \in NamedRunBodies :
    IF RunValidation(body) = "ok"
      THEN AcceptOf(NamedIds, "run", body, body.projectId,
                    Default(body.browserType, "chromium"), body.callbackUrl)
      ELSE RespondWithoutJob("run", body, 400)

NextDownload ==
  \/ PostTestRunNamed
  \/ Materialize
  \/ ExecSettles
  \/ ParseStep
  \/ SaveResult
  \/ ZipOpen
  \/ ZipAccess
  \/ ZipFinalize
  \/ Resave
  \/ GetDownload
  \/ GetDownloadStream

SpecDownload == Init /\ [][NextDownload]_vars

(***************************************************************************)
(* A process started over the disk earlier processes left: up to MaxDirs   *)
(* job directories, each with the result.json runTest wrote, with one cut  *)
(* short, or with none.                                                    *)
(***************************************************************************)
\* Which directories have what in result.json
ListKinds == {"all", "oneMissing", "oneTruncated", "manyOfEach"}

\* Has the directory no result.json
PastMissing(kind, id) ==
  \/ kind = "oneMissing" /\ id = 3
  \/ kind = "manyOfEach" /\ id % 3 = 0

\* Is the directory's result.json cut short
PastTruncated(kind, id) ==
  \/ kind = "oneTruncated" /\ id = 2
  \/ kind = "manyOfEach" /\ id % 2 = 0

\* In what order the jobs started
ListOrders == {"ascending", "descending", "scattered"}

\* The record runTest saved for a job of an earlier process
PastResult(id, t) ==
  Finally([NewTestResult(id, "proj", "chromium", t) EXCEPT
             !.status = IF id % 2 = 0 THEN "failed" ELSE "passed",
             !.passed = (id % 2),
             !.failed = 1 - (id % 2)], t + 1)

PastTime(order, n, id) ==
  IF order = "ascending" THEN id
  ELSE IF order = "descending" THEN n - id
  ELSE (id * 7) % 5

PastFile(kind, order, n, id) ==
  IF PastTruncated(kind, id) THEN Truncated
  ELSE Stringify(PastResult(id, PastTime(order, n, id)))

InitList ==
  \E n \in 0 .. MaxDirs : \E kind \in ListKinds : \E order \in ListOrders :
    /\ clock = 0
    /\ runningTests = <<>>
    /\ testDirs = 1 .. n
    /\ resultJson = [id \in {d \in 1 .. n : ~PastMissing(kind, d)} |->
                       PastFile(kind, order, n, id)]
    /\ zipFiles = <<>>
    /\ job = <<>>
    /\ pc = <<>>
    /\ proc = <<>>
    /\ promise = <<>>
    /\ issued = 1 .. n
    /\ poll = [id \in 1 .. n |-> Idle]
    /\ pollResp = [id \in 1 .. n |-> NoResp]
    /\ lastSubmit = NoSubmit
    /\ old = [dirs |-> {}, zips |-> {}]
    /\ sweep = "idle"
    /\ listResp = NoList
    /\ download = NoDownload
    /\ testFile = NoTestFile
    /\ archive = NoArchive
    /\ fetcher = NewFetcher

NextList == GetTestList

SpecList == InitList /\ [][NextList]_vars


(***************************************************************************)
(* Properties                                                              *)
(***************************************************************************)
Terminal(status) == status \in {"passed", "failed"}

\* runTest has returned for the job
RunTestReturned(id) == promise[id].runTest = "fulfilled"

\* C1: once runTest has returned for an accepted job (the subprocess exited or
\* was timed out, the file operations are over), the status getTestStatus
\* reports is 'passed' or 'failed', whatever test-results.json holds.
C1_StatusBecomesTerminal ==
  \A id \in Accepted : RunTestReturned(id) => Terminal(runningTests[id].status)

\* C2: once a job's record is 'passed' or 'failed', no step changes its status
\* (a step that ends the process leaves no record to change).
C2_VerdictIsFinal ==
  [][\A id \in Accepted \cap DOMAIN runningTests' :
       Terminal(runningTests[id].status)
         => runningTests'[id].status = runningTests[id].status]_vars

\* A passed job after createZip resolved, the record was saved again, the
\* callback was attempted and a status request was answered
C2_Witness ==
  \E id \in Accepted :
    /\ runningTests[id].status = "passed"
    /\ pc[id] = "done"
    /\ promise[id].createZip = "fulfilled"
    /\ promise[id].callbacks = 1
    /\ id \in DOMAIN resultJson /\ JsonParse(resultJson[id]).downloadUrl # <<>>
    /\ pollResp[id].code = 200

\* C3: a status response carries a downloadUrl only if createZip had resolved
\* for the job when the response was sent.
C3_DownloadUrlOnlyAfterZip ==
  \A id \in Accepted :
    pollResp[id].code = 200 /\ pollResp[id].downloadUrl # <<>>
      => pollResp[id].zipAtSend = "fulfilled"

\* C4: once createZip rejected for a job, no status response sent from then on
\* carries a downloadUrl, artifacts.zipPath stays empty, and createZip was
\* called once.
C4_RejectedZipStaysHidden ==
  \A id \in Accepted :
    /\ pollResp[id].zipAtSend = "rejected" => pollResp[id].downloadUrl = <<>>
    /\ promise[id].createZip = "rejected"
         => runningTests[id].artifacts.zipPath = <<>> /\ promise[id].zipCalls = 1

\* The three artifact references of a record
ArtifactRefs(rec) == {rec.artifacts.reportPath, rec.artifacts.zipPath, rec.downloadUrl}

C6_RespondsBeforeJobRuns ==
  \A id \in Accepted :
    job[id].route = "run" => job[id].response = [code |-> 202, testId |-> id]

\* The 202 is out while the runner subprocess is still running
C6_Witness ==
  \E id \in Accepted :
    job[id].route = "run" /\ pc[id] = "exec" /\ job[id].response.code = 202

\* C7: runTest's promise never rejects, it is fulfilled once the write of
\* result.json is over, and after a nonzero exit, a timeout or a spawn error
\* the record the registry holds is failed, with failed=1, passed=0, an error
\* entry and endTime.
C7_RunTestAlwaysResolves ==
  \A id \in Accepted :
    /\ promise[id].runTest # "rejected"
    /\ pc[id] \notin {"materialize", "exec", "parse", "save"} => RunTestReturned(id)
    /\ RunTestReturned(id) /\ proc[id].outcome \in {"nonzero", "timeout", "spawnError"}
         => /\ runningTests[id].status = "failed"
            /\ runningTests[id].failed = 1
            /\ runningTests[id].passed = 0
            /\ Len(runningTests[id].errors) = 1
            /\ runningTests[id].endTime # <<>>

\* runTest returned after a timeout whose result.json could not be written
C7_Witness ==
  \E id \in Accepted :
    /\ RunTestReturned(id)
    /\ proc[id].outcome = "timeout"
    /\ id \notin DOMAIN resultJson
    /\ runningTests[id].status = "failed"

\* Does an error message identify a timeout
IsTimeoutMessage(message) ==
  message = <<"execution", "timeout">> \/ Includes(message, "timeout")

\* C8: a job whose subprocess was killed on timeout is failed, with an error
\* entry whose message identifies a timeout.
C8_TimeoutIsReported ==
  \A id \in Accepted :
    proc[id].outcome = "timeout"
      => /\ runningTests[id].status = "failed"
         /\ \E i \in DOMAIN runningTests[id].errors :
              IsTimeoutMessage(runningTests[id].errors[i].message)

\* C9: POST /api/test/run with a required field missing or an unknown engine
\* answers 400 without a testId, and the step that answers 400 changes nothing
\* of the registry, the directories, the bundles or the subprocesses.
C9_InvalidRunIsRejected ==
  /\ [](lastSubmit.route = "run" /\ lastSubmit.defect # "none"
          => lastSubmit.code = 400 /\ lastSubmit.testId = NoId)
  /\ [][lastSubmit' # lastSubmit /\ lastSubmit'.route = "run" /\ lastSubmit'.code = 400
          => UNCHANGED pipelineVars]_vars

\* An unknown engine was answered 400 while an earlier job is in flight
C9_Witness ==
  /\ lastSubmit.route = "run"
  /\ lastSubmit.defect = "browser"
  /\ lastSubmit.code = 400
  /\ \E id \in Accepted : pc[id] = "exec"

\* C10: no job exists whose engine selector is outside chromium, firefox, webkit.
C10_EngineAlwaysValid ==
  \A id \in Accepted : runningTests[id].browserType \in validBrowsers

\* C11: a step of the status route leaves the registry as it was: no field
\* of a stored record is added or rewritten by polling.
C11_PollLeavesRegistry ==
  [][GetStatus \/ GetStatusAccess => runningTests' = runningTests]_vars

\* The verdict of a record: its status, counts and errors
Verdict(rec) == <<rec.status, rec.passed, rec.failed, rec.errors>>

Writing(id) == pc[id] \in {"save", "resave"}

C14_SweepEvictsRecord ==
  [][\A id \in issued :
       id \in testDirs /\ id \notin testDirs'
         => id \notin DOMAIN runningTests' /\ getTestStatus(id)' = <<>>]_vars

\* The runner subprocesses that are executing
Executing == {id \in Accepted : proc[id].outcome = "running"}

\* C15: at no time are more than MAX_CONCURRENT_TESTS runner subprocesses
\* executing, however many submissions were accepted.
C15_AtMostMaxConcurrent == Cardinality(Executing) <= MAX_CONCURRENT_TESTS

\* Does a step register the job
Registers(id) == id \notin DOMAIN runningTests /\ id \in DOMAIN runningTests'

Listable == {id \in testDirs : id \in DOMAIN resultJson /\ Parses(resultJson[id])}

\* C17: the list has one entry for every directory with a parseable
\* result.json and only for those, whatever the registry holds, newest start
\* first and cut to the first ListLimit; total is the number before the cut;
\* the directories without a readable result.json are skipped.
C17_ListFromDisk ==
  listResp.code # 0 =>
    LET tests == listResp.tests
        listed == {tests[i].testId : i \in DOMAIN tests}
    IN  /\ listResp.code = 200
        /\ listResp.total = Cardinality(Listable)
        /\ Len(tests) = IF listResp.total < ListLimit THEN listResp.total ELSE ListLimit
        /\ Cardinality(listed) = Len(tests)
        /\ listed \subseteq Listable
        /\ \A i \in DOMAIN tests :
             tests[i] = ListEntry(JsonParse(resultJson[tests[i].testId]))
        /\ \A i \in DOMAIN tests : \A j \in DOMAIN tests :
             i < j => DateOf(tests[i].startTime) >= DateOf(tests[j].startTime)
        /\ \A id \in Listable \ listed : \A i \in DOMAIN tests :
             DateOf(JsonParse(resultJson[id]).startTime) <= DateOf(tests[i].startTime)

\* More than ListLimit jobs are listable, some directories were skipped, the
\* registry is empty and the list was cut
C17_Witness ==
  /\ listResp.code = 200
  /\ listResp.total > ListLimit
  /\ Len(listResp.tests) = ListLimit
  /\ Cardinality(testDirs) > listResp.total
  /\ runningTests = <<>>

\* The files of reports/zips that carry the job's id in their name
BundleNames(id) == {name \in DOMAIN zipFiles : name[2] = id}

\* C18: every status response sent once the job's bundle is ready carries the
\* same downloadUrl, the URL of the bundle; and no step of the status route
\* calls createZip or touches a file of reports/zips.
C18_SameDownloadUrl ==
  /\ [](\A id \in issued :
          pollResp[id].code = 200 /\ pollResp[id].zipAtSend = "fulfilled"
          /\ BundleOnDisk(id)
            => \E name \in BundleNames(id) :
                 pollResp[id].downloadUrl = <<BaseUrl>> \o DownloadUrlOf(name))
  /\ [][GetStatus \/ GetStatusAccess
          => /\ zipFiles' = zipFiles
             /\ \A id \in DOMAIN promise :
                  promise'[id].zipCalls = promise[id].zipCalls]_vars

\* C19: DELETE /api/report/:testId for a job that exists answers 200 and
\* removes its directory, its bundle and its registry entry, so that
\* getTestStatus then throws; for an id that does not exist it answers 404
\* and changes nothing.
C19_DeleteRemovesJob ==
  [][\A id \in issued :
       lastSubmit' # lastSubmit /\ lastSubmit'.route = "delete"
       /\ lastSubmit'.testId = id
         => IF id \in DOMAIN runningTests \/ id \in testDirs
              THEN /\ lastSubmit'.code = 200
                   /\ id \notin testDirs'
                   /\ BundleNames(id)' = {}
                   /\ id \notin DOMAIN runningTests'
                   /\ getTestStatus(id)' = <<>>
              ELSE /\ lastSubmit'.code = 404
                   /\ UNCHANGED pipelineVars]_vars

\* The messages of the error entries of a record
Messages(rec) == [i \in DOMAIN rec.errors |-> rec.errors[i].message]

\* What the parser's reading of the results file decides
Reading(rec) == <<rec.status, rec.passed, rec.failed, rec.duration, Messages(rec)>>

\* C20: when the subprocess exited on its own, with code 0 or not, and left a
\* results file that holds a result, the verdict, the duration and the error
\* details of the job are the parser's reading of that file.
C20_NonzeroExitIsParsed ==
  \A id \in Accepted :
    /\ proc[id].outcome \in {"exit0", "nonzero"}
    /\ pc[id] \notin {"materialize", "exec", "parse"}
    /\ proc[id].results.kind = "result"
    => Reading(runningTests[id])
         = Reading(ParseResults(NewTestResult(id, runningTests[id].projectId,
                                              runningTests[id].browserType, 0),
                                proc[id].results, <<>>, 0))

\* The verdict the scan of stderr gives
StderrVerdict(stderr) ==
  IF Includes(stderr, "failed") \/ Includes(stderr, "error") THEN "failed" ELSE "passed"

\* C21: when the runner exited with code 0 and test-results.json is absent,
\* not parseable, or parseable without a first suite, spec, test or result,
\* the step that processes the results sets the verdict the scan of stderr
\* gives.
C21_StderrDecidesWithoutResult ==
  [][\A id \in Accepted \cap DOMAIN runningTests' :
       /\ pc[id] = "parse" /\ pc'[id] # "parse"
       /\ proc[id].results.kind # "result"
       => runningTests'[id].status = StderrVerdict(proc[id].stderr)]_vars

\* C22: on every submission route the chain runTest, createZip, record
\* update, callback ends fulfilled: a rejection of createZip is caught and
\* logged, and the chain's promise is never rejected with no handler attached.
C22_ChainNeverRejects ==
  \A id \in Accepted : promise[id].chain # "rejected"

\* C23: a download answered 200 carries the complete archive: never a file
\* createZip is still writing, nor the file a rejected createZip left behind.
C23_ServesOnlyCompleteBundles ==
  download.code = 200
    => /\ download.body = "complete"
       /\ promise[download.testId].createZip = "fulfilled"

\* C24: for two distinct jobs the job directories differ, their bundle files
\* differ and neither job's bundle lies in the other's directory tree; and
\* every bundle file lies directly inside reports/zips.
C24_PathsDisjoint ==
  /\ \A a \in Accepted : \A b \in Accepted \ {a} :
       /\ TestRunDir(a) # TestRunDir(b)
       /\ \A na \in BundleNames(a) :
            /\ ~Under(BundlePath(na), TestRunDir(b))
            /\ \A nb \in BundleNames(b) : BundlePath(na) # BundlePath(nb)
  /\ \A name \in DOMAIN zipFiles : DirectlyIn(BundlePath(name), ZipsDir)

\* C25: a request for the download URL the 202 announced, made once createZip
\* has resolved for the job, passes the check of the file name and is
\* answered 200 with the job's complete bundle.
C25_AnnouncedUrlDownloads ==
  [][\A id \in Accepted :
       /\ download' # download
       /\ download'.testId = id
       /\ download'.at = "idle"
       /\ job[id].route = "run"
       /\ promise[id].createZip = "fulfilled"
       => download'.code = 200 /\ download'.body = "complete"]_vars

\* C26: for a job of POST /api/test/run that gave a callbackUrl, the chain
\* does not end without an attempt to deliver the completion callback,
\* whatever the outcome of packaging.  Once the chain has ended no step
\* attempts one, so a chain ended without an attempt refutes "eventually".
C26_CallbackAttempted ==
  \A id \in Accepted :
    job[id].route = "run" /\ Truthy(job[id].callbackUrl) /\ pc[id] = "done"
      => promise[id].callbacks >= 1

\* C28: for a terminal job whose record has no downloadUrl, read from the
\* registry or from result.json, the bundle name the status route rebuilds
\* from projectId, testId and startTime is the name of the job's bundle file.
C28_RebuiltNameIsBundleName ==
  \A id \in issued :
    LET got == getTestStatus(id)
    IN  got # <<>> /\ Terminal(got[1].status) /\ got[1].downloadUrl = <<>>
          => \A name \in BundleNames(id) : StatusZipName(got[1]) = name

\* C29: once createZip has rejected for a job, no file is at the bundle path.
C29_RejectedZipLeavesNoFile ==
  \A id \in Accepted :
    promise[id].createZip = "rejected" => ZipNameOf(id) \notin DOMAIN zipFiles

\* The routes that start jobs
SubmissionRoutes == {"run", "convert", "webhook", "n8n"}

Settled(state) == state \in {"fulfilled", "rejected"}

\* C30: createZip's promise is pending exactly while createZip is at work and
\* settles once, never changing afterwards; it is fulfilled only by the step
\* that finalizes the archive and closes the stream, which leaves the complete
\* file and hands its path to the record; and when test-runs/<testId> does
\* not exist at the directory check it rejects.
C30_CreateZipSettlesOnce ==
  /\ [](\A id \in Accepted :
          /\ promise[id].createZip = "pending"
               <=> pc[id] \in {"zipOpen", "zipAccess", "zipFinalize"}
          /\ pc[id] \in {"resave", "callback", "done"} /\ promise[id].zipCalls > 0
               => Settled(promise[id].createZip)
          /\ promise[id].zipCalls <= 1)
  /\ [][\A id \in Accepted \cap DOMAIN runningTests' :
          LET before == promise[id].createZip
              after == promise'[id].createZip
          IN  /\ before # after
                   => \/ before = "none" /\ after = "pending"
                      \/ before = "pending" /\ Settled(after)
              /\ before # after /\ after = "fulfilled"
                   => /\ pc[id] = "zipFinalize"
                      /\ id \in testDirs
                      /\ zipFiles'[ZipNameOf(id)] = "complete"
                      /\ runningTests'[id].artifacts.zipPath = ZipPathOf(ZipNameOf(id))
              /\ pc[id] = "zipAccess" /\ pc'[id] # "zipAccess" /\ id \notin testDirs
                   => after = "rejected"]_vars

\* createZip rejected for a job without directory, after its stream had
\* opened the file
C30_Witness ==
  \E id \in Accepted :
    /\ promise[id].createZip = "rejected"
    /\ promise[id].zipCalls = 1
    /\ id \notin testDirs
    /\ ZipNameOf(id) \in DOMAIN zipFiles
    /\ pc[id] = "done"

\* The position of a stage in the pipeline
Rank(stage) ==
  CASE stage = "materialize" -> 1
    [] stage = "exec"        -> 2
    [] stage = "parse"       -> 3
    [] stage = "save"        -> 4
    [] stage = "zipOpen"     -> 5
    [] stage = "zipAccess"   -> 6
    [] stage = "zipFinalize" -> 7
    [] stage = "resave"      -> 8
    [] stage = "callback"    -> 9
    [] stage = "done"        -> 10

\* C32: a job moves through its stages forward only (files written,
\* subprocess started, subprocess concluded and verdict recorded, result.json
\* saved, createZip started, bundle recorded, callback sent), and the effect
\* of a stage is there only when the stages before it are over.
C32_StagesInOrder ==
  /\ [](\A id \in Accepted :
          /\ proc[id].outcome = "running" <=> pc[id] = "exec"
          /\ pc[id] = "exec" => id \in testDirs
          /\ Terminal(runningTests[id].status) => Rank(pc[id]) >= Rank("save")
          /\ id \in DOMAIN resultJson => Rank(pc[id]) > Rank("save")
          /\ Rank(pc[id]) > Rank("save") => RunTestReturned(id)
          /\ promise[id].createZip # "none" => Rank(pc[id]) > Rank("save")
          /\ runningTests[id].artifacts.zipPath # <<>> => Rank(pc[id]) > Rank("zipFinalize")
          /\ promise[id].callbacks > 0
               => pc[id] = "done" /\ runningTests[id].artifacts.zipPath # <<>>)
  /\ [][\A id \in Accepted \cap DOMAIN runningTests' :
          pc'[id] # pc[id] => Rank(pc'[id]) > Rank(pc[id])]_vars

\* A job failed by its results went through every stage to the callback
C32_Witness ==
  \E id \in Accepted :
    /\ pc[id] = "done"
    /\ proc[id].outcome = "exit0"
    /\ runningTests[id].status = "failed"
    /\ id \in DOMAIN resultJson
    /\ promise[id].createZip = "fulfilled"
    /\ promise[id].callbacks = 1

\* C33: in the registry and in every record getTestStatus returns, passed
\* goes with passed=1 and failed=0, failed with passed=0 and failed=1, running
\* with passed=0 and failed=0.
C33_CountsMatchStatus ==
  \A id \in issued :
    LET got == getTestStatus(id)
    IN  got # <<>>
          => /\ got[1].status = "passed" => got[1].passed = 1 /\ got[1].failed = 0
             /\ got[1].status = "failed" => got[1].passed = 0 /\ got[1].failed = 1
             /\ got[1].status = "running" => got[1].passed = 0 /\ got[1].failed = 0

\* A job passed by the scan of stderr, its results file being unparseable
C33_Witness ==
  \E id \in Accepted :
    /\ proc[id].outcome = "exit0"
    /\ proc[id].results.kind = "malformed"
    /\ runningTests[id].status = "passed"
    /\ runningTests[id].passed = 1
    /\ runningTests[id].failed = 0

\* The counts and the errors of a record
Counts(rec) == <<rec.passed, rec.failed, rec.errors>>

\* C34: until the subprocess has concluded the counts are 0 and the errors
\* list is empty; they are written by one step, the one that ends runTest's
\* try block, on a record that is running; no later step (packaging, saving
\* again, callback, status request) changes them.
C34_CountsWrittenOnce ==
  /\ [](\A id \in Accepted :
          pc[id] \in {"materialize", "exec", "parse"}
            => Counts(runningTests[id]) = <<0, 0, <<>>>>)
  /\ [][\A id \in Accepted \cap DOMAIN runningTests' :
          Counts(runningTests'[id]) # Counts(runningTests[id])
            => /\ runningTests[id].status = "running"
               /\ Counts(runningTests[id]) = <<0, 0, <<>>>>
               /\ pc[id] \in {"materialize", "exec", "parse"}
               /\ pc'[id] = "save"]_vars

\* A job failed by its results file keeps its one error after packaging,
\* the second save and a status request
C34_Witness ==
  \E id \in Accepted :
    /\ proc[id].results.kind = "result"
    /\ proc[id].outcome = "exit0"
    /\ Counts(runningTests[id])[2] = 1
    /\ Len(runningTests[id].errors) = 1
    /\ runningTests[id].artifacts.zipPath # <<>>
    /\ pc[id] = "done"
    /\ pollResp[id].code = 200
    /\ pollResp[id].downloadUrl # <<>>

\* C35: a passed job has an empty errors list.
C35_PassedHasNoErrors ==
  \A id \in Accepted :
    runningTests[id].status = "passed" => runningTests[id].errors = <<>>

\* C36: at most one callback is attempted for a job; the step in which the
\* delivery settles, delivered or not, changes neither the record, nor
\* result.json, nor the bundle, and leaves the chain fulfilled.
C36_CallbackOnceAndHarmless ==
  /\ [](\A id \in Accepted :
          /\ promise[id].callbacks <= 1
          /\ promise[id].undelivered > 0 => promise[id].chain = "fulfilled")
  /\ [][\A id \in Accepted \cap DOMAIN runningTests' :
          promise'[id].callbacks # promise[id].callbacks
            => /\ runningTests'[id] = runningTests[id]
               /\ resultJson' = resultJson
               /\ zipFiles' = zipFiles
               /\ promise'[id].chain = "fulfilled"]_vars

\* The callback of a passed job could not be delivered
C36_Witness ==
  \E id \in Accepted :
    /\ promise[id].undelivered = 1
    /\ promise[id].callbacks = 1
    /\ pc[id] = "done"
    /\ runningTests[id].status = "passed"

(***************************************************************************)
(* The sweep beside a pipeline in flight.  The disk holds the directory    *)
(* and the bundle of a job of an earlier process; a new job runs while     *)
(* time passes and cleanupOldTests runs.  The runner is killed after 300 s *)
(* (the timeout of execAsync), so no day passes while it runs; no other    *)
(* await of the pipeline has a timeout, and cleanupOldTests looks at       *)
(* mtimes only, never at runningTests.                                     *)
(***************************************************************************)
\* How many jobs the disk has seen: the earlier one and the new one
MaxSwept == 2

SweptIds == 1 .. MaxSwept

\* The job of the earlier process
PastId == 1

\* The bundle of the job of the earlier process
PastZip == ZipFileName("proj", PastId, Stamp(ToISOString(0)))

\* Bodies sent to POST /api/test/run while the sweep is watched
SweptRunBodies ==
  { Body("proj", "name", "code", Missing, Missing, FALSE, 0),
    Body("proj", "name", "code", Missing, "http://cb", FALSE, 0) }

InitSweep ==
  \E aged \in BOOLEAN :
    /\ clock = 0
    /\ runningTests = <<>>
    /\ testDirs = {PastId}
    /\ resultJson = [id \in {PastId} |-> Stringify(PastResult(PastId, 0))]
    /\ zipFiles = [name \in {PastZip} |-> "complete"]
    /\ job = <<>>
    /\ pc = <<>>
    /\ proc = <<>>
    /\ promise = <<>>
    /\ issued = {PastId}
    /\ poll = [id \in {PastId} |-> Idle]
    /\ pollResp = [id \in {PastId} |-> NoResp]
    /\ lastSubmit = NoSubmit
    /\ old = IF aged THEN [dirs |-> {PastId}, zips |-> {PastZip}]
                     ELSE [dirs |-> {}, zips |-> {}]
    /\ sweep = "idle"
    /\ listResp = NoList
    /\ download = NoDownload
    /\ testFile = NoTestFile
    /\ archive = NoArchive
    /\ fetcher = NewFetcher

\* POST /api/test/run, for the job beside the sweep
PostTestRunSwept ==
  \E body \in SweptRunBodies :
    IF RunValidation(body) = "ok"
      THEN AcceptOf(SweptIds, "run", body, body.projectId,
                    Default(body.browserType, "chromium"), body.callbackUrl)
      ELSE RespondWithoutJob("run", body, 400)

\* 24 hours pass while no runner is running: what is on disk becomes older
\* than the cutoff, the directory and the bundle of a job in flight included
DayPassesInFlight ==
  /\ \A id \in Accepted : pc[id] # "exec"
  /\ sweep = "idle"
  /\ old' = [dirs |-> testDirs, zips |-> DOMAIN zipFiles]
  /\ old' # old
  /\ UNCHANGED <<clock, pipelineVars, poll, pollResp, lastSubmit, issued, sweep,
                 listResp, download, unitVars>>

NextSweep ==
  \/ PostTestRunSwept
  \/ Materialize
  \/ ExecSettles
  \/ ParseStep
  \/ SaveResult
  \/ ZipOpen
  \/ ZipAccess
  \/ ZipFinalize
  \/ Resave
  \/ Callback
  \/ DayPassesInFlight
  \/ CleanupTestRuns
  \/ CleanupZips

SpecSweep == InitSweep /\ [][NextSweep]_vars

\* The runner of the job is running, or its bundle is being written
InFlight(id) == pc[id] \in {"exec", "zipOpen", "zipAccess", "zipFinalize"}

\* What a step removed from test-runs and from reports/zips
RemovedDirs == testDirs \ testDirs'

RemovedZips == DOMAIN zipFiles \ DOMAIN zipFiles'

\* C37: no step removes the directory or the bundle of a job in flight (its
\* runner running or its bundle being written), and what is removed is older
\* than 24 hours.
C37_SweepSparesInFlight ==
  [][/\ \A id \in Accepted :
          InFlight(id) => id \notin RemovedDirs /\ ZipNameOf(id) \notin RemovedZips
     /\ RemovedDirs \subseteq old.dirs
     /\ RemovedZips \subseteq old.zips]_vars

\* C37, amended: what is removed is older than 24 hours, whether or not its
\* job is in flight; an entry the pipeline has just created in the directory,
\* or a bundle it has just finished, is not older than 24 hours; and while
\* the runner is running the directory is never old, so it stays.
C37_SweepRemovesOnlyOld ==
  /\ [](\A id \in Accepted : pc[id] = "exec" => id \in testDirs /\ id \notin old.dirs)
  /\ [][/\ RemovedDirs \subseteq old.dirs
        /\ RemovedZips \subseteq old.zips
        /\ \A id \in Accepted :
             /\ pc[id] = "exec" => id \notin RemovedDirs
             /\ id \in DOMAIN resultJson' \ DOMAIN resultJson => id \notin old'.dirs
             /\ pc[id] = "zipFinalize" /\ pc'[id] = "resave"
                  => ZipNameOf(id) \notin old'.zips]_vars

\* The sweep removed the directory of a job whose bundle is being written,
\* and left the directory of the earlier job, which was not old
C37_Witness ==
  \E id \in Accepted :
    /\ pc[id] = "zipAccess"
    /\ proc[id].outcome = "exit0"
    /\ id \notin testDirs
    /\ ZipNameOf(id) \in DOMAIN zipFiles
    /\ sweep = "zips"

(***************************************************************************)
(* ZipService.createZip over a job directory holding any of the items it   *)
(* looks for.  The paths are relative to test-runs/<testId>; a member of   *)
(* the archive is the name it is stored under and where it was taken from. *)
(* The failures of the streams are in ZipOpen and ZipFinalize.             *)
(***************************************************************************)
\* possibleReportDirs, in the order they are tried
possibleReportDirs == <<"playwright-report", "test-results/playwright-report">>

\* resultFiles
resultFiles == <<"result.json", "test-results.json", "test-results.xml",
                 "playwright.config.js">>

Range(seq) == {seq[i] : i \in DOMAIN seq}

\* What createZip looks for in the job directory
ArchiveItems ==
  Range(possibleReportDirs) \cup {"test-results", "tests"} \cup Range(resultFiles)

\* What a job directory can hold: a report under test-results needs test-results
ItemSets ==
  {items \in SUBSET ArchiveItems :
     "test-results/playwright-report" \in items => "test-results" \in items}

Member(name, from) == [name |-> name, from |-> from]

\* As ReportFrom, with the loop going on after a report was added
ReportFromEvery(items) ==
  {possibleReportDirs[i] : i \in {k \in DOMAIN possibleReportDirs :
                                    possibleReportDirs[k] \in items}}

\* Lines 70-81: the first of possibleReportDirs that fs.access finds, then break
ReportFrom(items) ==
  LET found == {k \in DOMAIN possibleReportDirs : possibleReportDirs[k] \in items}
  IN  {possibleReportDirs[k] : k \in {f \in found : \A g \in found : f <= g}}

\* The server as started, nothing submitted
InitServer ==
  /\ clock = 0
  /\ runningTests = <<>>
  /\ resultJson = <<>>
  /\ testDirs = {}
  /\ zipFiles = <<>>
  /\ job = <<>>
  /\ pc = <<>>
  /\ proc = <<>>
  /\ promise = <<>>
  /\ poll = <<>>
  /\ pollResp = <<>>
  /\ lastSubmit = NoSubmit
  /\ issued = {}
  /\ old = [dirs |-> {}, zips |-> {}]
  /\ sweep = "idle"
  /\ listResp = NoList
  /\ download = NoDownload

InitArchive ==
  /\ InitServer
  /\ testFile = NoTestFile
  /\ fetcher = NewFetcher
  /\ \/ \E items \in ItemSets : \E parses \in BOOLEAN :
          /\ parses => "result.json" \in items
          /\ archive = [NoArchive EXCEPT !.dir = TRUE, !.items = items, !.parses = parses,
                                         !.at = "access", !.settled = "pending"]
     \/ archive = [NoArchive EXCEPT !.at = "access", !.settled = "pending"]

archiveFrame == <<clock, pipelineVars, poll, pollResp, lastSubmit, issued, sweepVars,
                  listResp, download, testFile, fetcher>>

\* Lines 55-60: the job directory must be there
CreateZipAccess ==
  /\ archive.at = "access"
  /\ archive' = IF archive.dir
                  THEN [archive EXCEPT !.at = "report"]
                  ELSE [archive EXCEPT !.at = "closed", !.settled = "rejected"]
  /\ UNCHANGED archiveFrame

\* Lines 62-87: the report, stored as playwright-report
CreateZipReport ==
  /\ archive.at = "report"
  /\ archive' = [archive EXCEPT
                   !.at = "test-results",
                   !.members = @ \cup {Member("playwright-report", from) :
                                         from \in ReportFrom(archive.items)}]
  /\ UNCHANGED archiveFrame

\* Lines 89-97: test-results
CreateZipTestResults ==
  /\ archive.at = "test-results"
  /\ archive' = [archive EXCEPT
                   !.at = "tests",
                   !.members = IF "test-results" \in archive.items
                                 THEN @ \cup {Member("test-results", "test-results")}
                                 ELSE @]
  /\ UNCHANGED archiveFrame

\* Lines 99-107: tests
CreateZipTests ==
  /\ archive.at = "tests"
  /\ archive' = [archive EXCEPT
                   !.at = "files",
                   !.members = IF "tests" \in archive.items
                                 THEN @ \cup {Member("tests", "tests")}
                                 ELSE @]
  /\ UNCHANGED archiveFrame

\* Lines 109-121: the result files that are there
CreateZipFiles ==
  /\ archive.at = "files"
  /\ archive' = [archive EXCEPT
                   !.at = "manifest",
                   !.members = @ \cup {Member(resultFiles[i], resultFiles[i]) :
                                         i \in {k \in DOMAIN resultFiles :
                                                  resultFiles[k] \in archive.items}}]
  /\ UNCHANGED archiveFrame

\* createManifest: testInfo is added when result.json is read and parsed; a
\* failure is logged
CreateManifestInfo(items, parses) == "result.json" \in items /\ parses

\* Lines 123-133 and 24-28: manifest.json and README.md are appended, the
\* archive is finalized, and the promise resolves on 'close'
CreateZipFinalize ==
  /\ archive.at = "manifest"
  /\ archive' = [archive EXCEPT
                   !.at = "closed",
                   !.testInfo = CreateManifestInfo(archive.items, archive.parses),
                   !.members = @ \cup {Member("manifest.json", "generated"),
                                       Member("README.md", "generated")},
                   !.settled = "fulfilled"]
  /\ UNCHANGED archiveFrame

NextArchive ==
  \/ CreateZipAccess
  \/ CreateZipReport
  \/ CreateZipTestResults
  \/ CreateZipTests
  \/ CreateZipFiles
  \/ CreateZipFinalize

SpecArchive == InitArchive /\ [][NextArchive]_vars

\* C31: with the job directory there, createZip never rejects whatever items
\* are missing, and the archive it resolved with holds exactly the items
\* present under their names (the report from the first location that
\* exists, stored as playwright-report) and manifest.json and README.md.
C31_ArchiveHoldsPresentItems ==
  /\ archive.dir => archive.settled # "rejected"
  /\ archive.settled = "fulfilled"
       => /\ archive.dir
          /\ archive.members =
               (IF "playwright-report" \in archive.items
                  THEN {Member("playwright-report", "playwright-report")}
                  ELSE IF "test-results/playwright-report" \in archive.items
                    THEN {Member("playwright-report", "test-results/playwright-report")}
                    ELSE {})
               \cup {Member(item, item) :
                       item \in archive.items \ Range(possibleReportDirs)}
               \cup {Member("manifest.json", "generated"), Member("README.md", "generated")}

\* createZip resolved for a directory holding both reports and a result.json
\* that does not parse, and for nothing else
C31_Witness ==
  /\ archive.settled = "fulfilled"
  /\ archive.items = Range(possibleReportDirs) \cup {"test-results", "result.json"}
  /\ ~archive.parses
  /\ ~archive.testInfo
  /\ Cardinality(archive.members) = 5

(***************************************************************************)
(* TestRunner.generateTestFile over the test codes a request can carry.    *)
(* A text is the sequence of its characters; the words of the function     *)
(* wrapper (async, page, =>) stand as one character each, and a stands for *)
(* any character of a statement that is neither a brace nor white space.   *)
(* The text around the body is the same for every test code.               *)
(***************************************************************************)
\* The longest bare snippet drawn
MaxSnippet == 4

SnippetChars == {"a", "{", "}", " ", "\n"}

\* \s
IsSpace(c) == c \in {" ", "\n"}

\* String#trim
RECURSIVE TrimStart(_)
TrimStart(text) ==
  IF text # <<>> /\ IsSpace(Head(text)) THEN TrimStart(Tail(text)) ELSE text

RECURSIVE TrimEnd(_)
TrimEnd(text) ==
  IF text # <<>> /\ IsSpace(text[Len(text)])
    THEN TrimEnd(SubSeq(text, 1, Len(text) - 1))
    ELSE text

Trim(text) == TrimEnd(TrimStart(text))

\* /^async\s*\(\s*{\s*page\s*}\s*\)\s*=>\s*{/
WrapperPattern == <<"async", "(", "{", "page", "}", ")", "=>", "{">>

\* How many characters of text the pattern matches from its start, 0 when
\* it does not match; i is the next character, k the next word of the pattern
RECURSIVE MatchWrapper(_, _, _)
MatchWrapper(text, i, k) ==
  IF k > Len(WrapperPattern) THEN i - 1
  ELSE IF i > Len(text) THEN 0
  ELSE IF text[i] = WrapperPattern[k] THEN MatchWrapper(text, i + 1, k + 1)
  ELSE IF k > 1 /\ IsSpace(text[i]) THEN MatchWrapper(text, i + 1, k)
  ELSE 0

\* cleanedCode.replace(/^async...{/, '')
StripWrapper(text) == SubSeq(text, MatchWrapper(text, 1, 1) + 1, Len(text))

\* cleanedCode.replace(/^{/, '')
StripLeadingBrace(text) ==
  IF text # <<>> /\ Head(text) = "{" THEN Tail(text) ELSE text

\* cleanedCode.replace(/}$/, '')
StripTrailingBrace(text) ==
  IF text # <<>> /\ text[Len(text)] = "}" THEN SubSeq(text, 1, Len(text) - 1) ELSE text

\* line => `    ${line}`
Indent(line) == <<" ", " ", " ", " ">> \o line

\* .split('\n').map(trim).filter(non-empty): the lines of a text
RECURSIVE TrimAll(_)
TrimAll(lines) ==
  IF lines = <<>> THEN <<>> ELSE <<Trim(Head(lines))>> \o TrimAll(Tail(lines))

RECURSIVE NonEmpty(_)
NonEmpty(lines) ==
  IF lines = <<>> THEN <<>>
  ELSE IF Head(lines) = <<>> THEN NonEmpty(Tail(lines))
  ELSE <<Head(lines)>> \o NonEmpty(Tail(lines))

CodeLines(text) == NonEmpty(TrimAll(Split(text, "\n")))

\* The lines of cleanedCode that generateTestFile embeds between try { and
\* } catch, for a test code
generateTestFile(testCode) ==
  LET trimmed   == Trim(testCode)
      unwrapped == StripTrailingBrace(StripWrapper(trimmed))
      unbraced  == StripTrailingBrace(StripLeadingBrace(unwrapped))
      lines     == CodeLines(unbraced)
  IN  [i \in DOMAIN lines |-> Indent(lines[i])]

\* The bare snippets drawn: every text of up to MaxSnippet characters
BareSnippets == UNION {[1 .. n -> SnippetChars] : n \in 0 .. MaxSnippet}

\* async ({ page }) => { ... }, around a body
Wrapped(body) ==
  <<"async", " ", "(", "{", " ", "page", " ", "}", ")", " ", "=>", " ", "{">>
    \o body \o <<"}">>

\* The wrapped test codes drawn
WrappedCodes ==
  {Wrapped(body) : body \in {<<"\n", "a", "\n">>, <<"a", "{", "a", "}">>, <<>>}}

InitTestFile ==
  /\ InitServer
  /\ archive = NoArchive
  /\ fetcher = NewFetcher
  /\ \E testCode \in BareSnippets \cup WrappedCodes :
       testFile = [NoTestFile EXCEPT !.testCode = testCode]

\* Lines 123-125 of runTest: the test file is generated and written
GenerateTestFile ==
  /\ ~testFile.written
  /\ testFile' = [testFile EXCEPT !.body = generateTestFile(testFile.testCode),
                                  !.written = TRUE]
  /\ UNCHANGED <<clock, pipelineVars, poll, pollResp, lastSubmit, issued, sweepVars,
                 listResp, download, archive, fetcher>>

NextTestFile == GenerateTestFile

SpecTestFile == InitTestFile /\ [][NextTestFile]_vars

\* The test code has no function wrapper
Bare(testCode) == MatchWrapper(Trim(testCode), 1, 1) = 0

\* C38: the body generated for a bare snippet is the snippet's non-empty
\* lines, trimmed, in their order (each indented by four spaces), also when
\* the snippet begins with '{' or ends with '}'.
C38_BareSnippetPreserved ==
  testFile.written /\ Bare(testFile.testCode)
    => testFile.body = [i \in DOMAIN CodeLines(testFile.testCode) |->
                          Indent(CodeLines(testFile.testCode)[i])]

(***************************************************************************)
(* DataFetcher.fetchData (public/js/data-fetcher.js).  A call reads the    *)
(* cache, and when the entry is missing or expired awaits fetch and        *)
(* response.json(); calls overlap at these awaits.  Time is counted in     *)
(* ticks of half the cache timeout.                                        *)
(***************************************************************************)
\* How many ticks pass
MaxTicks == 3

\* How many calls of fetchData overlap
MaxCallers == 2

Callers == 1 .. MaxCallers

\* this.cacheTimeout
cacheTimeout == 5 * 60 * 1000

\* Date.now()
DateNow(ticks) == ticks * (cacheTimeout \div 2)

\* The cache keys used
CacheKeys == {"users", "projects"}

\* What result.data can be
DataArrays == {<<>>, <<"row">>}

\* How the fetch of a call can end
FetchOutcomes == {"networkError", "httpError", "notJson", "successFalse", "success"}

\* The outcomes after which the data asked for did not arrive
FailedOutcomes == FetchOutcomes \ {"success"}

NoCall == [at |-> "idle", key |-> "", outcome |-> "none", returned |-> <<>>]

InitFetch ==
  /\ InitServer
  /\ testFile = NoTestFile
  /\ archive = NoArchive
  /\ fetcher = [NewFetcher EXCEPT !.calls = [c \in Callers |-> NoCall]]

fetchFrame == <<clock, pipelineVars, poll, pollResp, lastSubmit, issued, sweepVars,
                listResp, download, testFile, archive>>

\* cached && (Date.now() - cached.timestamp) < this.cacheTimeout
CacheFresh(f, key) ==
  /\ key \in DOMAIN f.cache
  /\ DateNow(f.ticks) - f.cache[key].timestamp < cacheTimeout

\* Lines 17-27: the cache is read; a fresh entry is returned, otherwise fetch
\* is called and awaited
FetchDataStart ==
  \E c \in Callers : \E key \in CacheKeys :
    /\ fetcher.calls[c].at # "fetching"
    /\ fetcher' = [fetcher EXCEPT
                     !.calls[c] =
                       IF CacheFresh(fetcher, key)
                         THEN [at |-> "returned", key |-> key, outcome |-> "cached",
                               returned |-> fetcher.cache[key].data]
                         ELSE [at |-> "fetching", key |-> key, outcome |-> "none",
                               returned |-> <<>>]]
    /\ UNCHANGED fetchFrame

\* Lines 35-41: a body that was received and parsed is cached, as result.data
\* when result.success and as [] otherwise; lines 45-46: after a throw the
\* cache is not written
CacheAfter(f, key, outcome, data) ==
  IF outcome \in {"success", "successFalse"}
    THEN Put(f.cache, key,
             [data |-> IF outcome = "success" THEN data ELSE <<>>,
              timestamp |-> DateNow(f.ticks)])
    ELSE f.cache

\* Lines 43 and 49-50: the data just cached, or after a throw the cached data
\* if there are any and [] otherwise
ReturnedAfter(f, key, outcome, data) ==
  IF outcome = "success" THEN data
  ELSE IF outcome = "successFalse" THEN <<>>
  ELSE IF key \in DOMAIN f.cache THEN f.cache[key].data
  ELSE <<>>

\* Lines 27-51: fetch settles (it rejects, or the response is not ok, or its
\* body is not JSON, or the body says success or not), and fetchData returns
FetchDataSettle ==
  \E c \in Callers : \E outcome \in FetchOutcomes : \E data \in DataArrays :
    /\ fetcher.calls[c].at = "fetching"
    /\ outcome # "success" => data = <<>>
    /\ LET key == fetcher.calls[c].key
       IN  fetcher' = [fetcher EXCEPT
                         !.cache = CacheAfter(fetcher, key, outcome, data),
                         !.calls[c] = [at |-> "returned", key |-> key, outcome |-> outcome,
                                       returned |-> ReturnedAfter(fetcher, key, outcome, data)]]
    /\ UNCHANGED fetchFrame

\* Time passes
FetchTick ==
  /\ fetcher.ticks < MaxTicks
  /\ fetcher' = [fetcher EXCEPT !.ticks = @ + 1]
  /\ UNCHANGED fetchFrame

NextFetch ==
  \/ FetchDataStart
  \/ FetchDataSettle
  \/ FetchTick

SpecFetch == InitFetch /\ [][NextFetch]_vars

\* C39: a call of fetchData whose fetch failed (network error, response not
\* ok, body not JSON, or body with success=false) returns (it does not
\* throw) the data cached for its key before, [] if there are none, and the
\* cache entry of the key is as it was.
C39_FailedFetchKeepsCache ==
  [][\A c \in Callers :
       /\ fetcher.calls[c].at = "fetching"
       /\ fetcher'.calls[c].at = "returned"
       /\ fetcher'.calls[c].outcome \in FailedOutcomes
       => LET key == fetcher.calls[c].key
          IN  /\ fetcher'.cache = fetcher.cache
              /\ fetcher'.calls[c].returned =
                   IF key \in DOMAIN fetcher.cache THEN fetcher.cache[key].data ELSE <<>>]_vars

=============================================================================
